---------------------------- MODULE Spec2Model ----------------------------
(***************************************************************************)
(* Model of my_model_selectors.py: the model selectors SelectorBIC,        *)
(* SelectorDIC and SelectorCV, which sweep the candidate state counts      *)
(* min_n_components..max_n_components, fit a GaussianHMM for each, score   *)
(* it and refit the best one.                                              *)
(*                                                                         *)
(* Abstractions.                                                           *)
(*  - A word's example sequences are identified by their position; an      *)
(*    observation set (X, lengths) is the tuple of the sequences it        *)
(*    concatenates, so `X' stands for the pair (self.X, self.lengths).     *)
(*  - GaussianHMM.fit and GaussianHMM.score are external: their outcome    *)
(*    is chosen freely the first time they are called on given arguments   *)
(*    and remembered (fitMemo, scoreMemo), because with the fixed          *)
(*    random_state the library is a function of its arguments.             *)
(*  - Log-likelihoods are integers; quotients (np.mean, the DIC) are exact *)
(*    rationals <<numerator, denominator>>; np.log is rounded to 1/1000.   *)
(***************************************************************************)
EXTENDS Integers, Sequences, FiniteSets, TLC

\* ---------------------------------------------------------------- bounds
\* SelectorBIC, SelectorDIC: candidate state counts and n_constant range over
\* 1..MaxComponents
MaxComponents == 3
\* SelectorCV fits a candidate once per fold: its candidate state counts and
\* n_constant range over 1..MaxComponentsCV
MaxComponentsCV == 2
\* log-likelihoods range over -MaxLogL..0
MaxLogL == 1
\* a word has 1..MaxSeq example sequences
MaxSeq == 3
\* X has at most MaxRows rows (SelectorBIC)
MaxRows == 4
\* X has 1..MaxFeatures columns (SelectorBIC)
MaxFeatures == 2
\* select() is called at most MaxCalls times on one selector
MaxCalls == 2

\* KFold(): the splitter's default number of folds
n_splits == 3

LogLs == (0 - MaxLogL)..0

VARIABLES
    selector,            \* the class of the selector: "BIC", "DIC" or "CV"
    n_constant,          \* self.n_constant
    min_n_components,    \* self.min_n_components
    max_n_components,    \* self.max_n_components
    sequences,           \* self.sequences
    shape,               \* self.X.shape of the full data: <<N, d>>
    X,                   \* (self.X, self.lengths)
    fitMemo,             \* outcomes of GaussianHMM(...).fit so far
    scoreMemo,           \* outcomes of model.score so far
    pc,                  \* "idle", "sweep", "fold" or "done"
    n_components,        \* the for loop's variable
    all_n_components,
    all_scores,
    all_logLs,
    sum_logL,
    scores,              \* SelectorCV: the fold scores of the current candidate
    fold,                \* SelectorCV: position in split_method.split(...)
    best_num_components,
    result,              \* what select() returned
    attempted,           \* history: the candidates this call has tried, in order
    pass,                \* history: the fit and score calls of the latest pass
    calls,               \* history: number of select() calls started
    selected             \* history: best_num_components of each finished call

vars == <<selector, n_constant, min_n_components, max_n_components, sequences,
          shape, X, fitMemo, scoreMemo, pc, n_components, all_n_components,
          all_scores, all_logLs, sum_logL, scores, fold, best_num_components,
          result, attempted, pass, calls, selected>>

config == <<selector, n_constant, min_n_components, max_n_components,
            sequences, shape>>

\* ------------------------------------------------------- numeric helpers
Rat(num, den) == <<num, den>>

\* a < b for rationals with positive denominators
Less(a, b) == a[1] * b[2] < b[1] * a[2]

RECURSIVE Sum(_)
Sum(s) == IF s = <<>> THEN 0 ELSE s[1] + Sum(Tail(s))

\* np.argmax: the first position of a maximum (positions count from 1 here)
np_argmax(v) ==
    CHOOSE i \in 1..Len(v) :
        /\ \A j \in 1..Len(v) : ~Less(v[i], v[j])
        /\ \A j \in 1..(i - 1) : Less(v[j], v[i])

\* np.argmin: the first position of a minimum
np_argmin(v) ==
    CHOOSE i \in 1..Len(v) :
        /\ \A j \in 1..Len(v) : ~Less(v[j], v[i])
        /\ \A j \in 1..(i - 1) : Less(v[i], v[j])

\* np.mean
np_mean(v) == Rat(Sum(v), Len(v))

\* 1000 * np.log(N), rounded
np_log(N) == <<0, 693, 1099, 1386, 1609, 1792, 1946, 2079>>[N]

\* ------------------------------------------------------- models and data
None == [n_components |-> 0, X |-> <<>>]

\* a fitted GaussianHMM: its state count and the data it was fit on
Model(n, data) == [n_components |-> n, X |-> data]

\* ModelSelector.base_model: fit on (self.X, self.lengths), None on failure
base_model(num_states, data, fitted) ==
    IF fitted THEN Model(num_states, data) ELSE None

\* asl_utils.combine_sequences(split_index_list, sequences)
combine_sequences(idx, seqs) == [i \in 1..Len(idx) |-> seqs[idx[i] + 1]]

\* the ascending tuple of the indices in S
RECURSIVE Ascending(_)
Ascending(S) ==
    IF S = {} THEN <<>>
    ELSE LET m == CHOOSE x \in S : \A y \in S : x <= y
         IN <<m>> \o Ascending(S \ {m})

\* KFold(n_splits).split over n samples, no shuffling: fold i tests a
\* contiguous block, the first n % n_splits blocks one longer than the rest
fold_size(n, i) == (n \div n_splits) + (IF i <= n % n_splits THEN 1 ELSE 0)

fold_start(n, i) == Sum([j \in 1..(i - 1) |-> fold_size(n, j)])

KFoldSplit(n) ==
    [i \in 1..n_splits |->
        LET test == fold_start(n, i)..(fold_start(n, i) + fold_size(n, i) - 1)
        IN <<Ascending((0..(n - 1)) \ test), Ascending(test)>>]

\* split_method.split(self.sequences), for every number of sequences
Splits == [n \in 1..MaxSeq |-> KFoldSplit(n)]

\* KFold.split raises ValueError when there are fewer samples than folds
SplitRaises(n) == n_splits > n

\* ------------------------------------------------- the external library
\* outcomes of fit(data) with n states: TRUE (a model) or FALSE (it raised)
FitOutcomes(data, n) ==
    IF <<data, n>> \in DOMAIN fitMemo THEN {fitMemo[<<data, n>>]} ELSE BOOLEAN

\* outcomes of model.score(test): <<logL>>, or <<>> when it raised; None has
\* no score method
ScoreOutcomes(model, test) ==
    LET key == <<model.X, model.n_components, test>>
    IN IF model = None THEN {<<>>}
       ELSE IF key \in DOMAIN scoreMemo THEN {scoreMemo[key]}
       ELSE {<<>>} \cup {<<v>> : v \in LogLs}

Remember(memo, key, val) ==
    IF key \in DOMAIN memo THEN memo ELSE memo @@ (key :> val)

RememberScore(model, test, s) ==
    IF model = None THEN scoreMemo
    ELSE Remember(scoreMemo, <<model.X, model.n_components, test>>, s)

\* history: base_model(n) fits on data; a model is then asked for its score
Calls(n, data, model, test) ==
    <<[op |-> "fit", n |-> n, train |-> data, test |-> <<>>]>> \o
    (IF model = None THEN <<>>
     ELSE <<[op |-> "score", n |-> n, train |-> model.X, test |-> test]>>)

\* ------------------------------------------------------------ criteria
\* number of free parameters of an n-state model over d features
num_params(n, d) == n * (n - 1) + (n - 1) + 2 * d * n

\* SelectorBIC: bic = -2 * logL + p * np.log(N)
bic(logL, n, N, d) == Rat(0 - 2000 * logL + num_params(n, d) * np_log(N), 1000)

\* a DIC with its two terms exchanged
dic_exchanged(logL, sum, M) == Rat((sum - logL) - M * logL, M)

\* SelectorDIC: dic = logL - (sum_logL - logL) / M
dic(logL, sum, M) == Rat(M * logL - (sum - logL), M)

\* a loop that a raising body ends
NextCandidateAbort(n, raised) ==
    IF raised THEN max_n_components + 1 ELSE n + 1

\* the for loop moves on to the next candidate, whether the body raised or not
NextCandidate(n, raised) == n + 1

\* a SelectorBIC that takes the highest BIC
BICBestArgmax(ns, sc, dflt) == IF sc # <<>> THEN ns[np_argmax(sc)] ELSE dflt

\* SelectorBIC: best_num_components
BICBest(ns, sc, dflt) == IF sc # <<>> THEN ns[np_argmin(sc)] ELSE dflt

\* SelectorDIC: M and best_num_components
DICScores(logLs, sum) ==
    [i \in 1..Len(logLs) |-> dic(logLs[i], sum, Len(logLs) - 1)]

\* a SelectorDIC whose branches are those of the number of successes
DICBestByCount(ns, logLs, sum, dflt) ==
    LET M == Len(ns) - 1
    IN IF M >= 1 THEN ns[np_argmax(DICScores(logLs, sum))]
       ELSE IF M = 0 THEN ns[1]
       ELSE dflt

DICBest(ns, logLs, sum, dflt) ==
    LET M == Len(ns) - 1
    IN IF M > 1 THEN ns[np_argmax(DICScores(logLs, sum))]
       ELSE IF M = 1 THEN ns[1]
       ELSE dflt

\* a SelectorCV that falls back to the lowest state count of its range
CVBestFallbackMin(ns, sc, dflt) ==
    IF sc # <<>> THEN ns[np_argmax(sc)] ELSE min_n_components

\* SelectorCV: best_num_components
CVBest(ns, sc, dflt) == IF sc # <<>> THEN ns[np_argmax(sc)] ELSE dflt

\* a SelectorCV that splits 2 sequences
enough_data_two(seqs) == Len(seqs) > 1

\* SelectorCV: "Check if there are enough data to split"
enough_data(seqs) == Len(seqs) > 2

\* a SelectorCV that averages the folds that scored before the failure
cv_except_partial(sc, partial) ==
    IF partial # <<>> THEN Append(sc, np_mean(partial)) ELSE sc

\* SelectorCV: the except clause leaves all_scores as it is
cv_except(sc, partial) == sc

\* ------------------------------------------------------------------ Init
Words(maxSeq) == {[i \in 1..k |-> i] : k \in 1..maxSeq}

\* ModelSelector.__init__, and the locals of a select() not yet called.
\* SelectorBIC alone reads X.shape and SelectorCV alone reads self.sequences:
\* one shape (one sequence) stands for all of them in the other selectors.
InitSelector(sel, maxN, words, shapes) ==
    /\ selector = sel
    /\ n_constant \in 1..maxN
    /\ min_n_components \in 1..maxN
    /\ max_n_components \in 1..maxN
    /\ sequences \in words
    /\ shape \in shapes
    /\ X = sequences
    /\ fitMemo = [k \in {} |-> TRUE]
    /\ scoreMemo = [k \in {} |-> <<>>]
    /\ pc = "idle"
    /\ n_components = 0
    /\ all_n_components = <<>>
    /\ all_scores = <<>>
    /\ all_logLs = <<>>
    /\ sum_logL = 0
    /\ scores = <<>>
    /\ fold = 0
    /\ best_num_components = 0
    /\ result = None
    /\ attempted = <<>>
    /\ pass = <<>>
    /\ calls = 0
    /\ selected = <<>>

InitBIC == InitSelector("BIC", MaxComponents, Words(1), (1..MaxRows) \X (1..MaxFeatures))

InitDIC == InitSelector("DIC", MaxComponents, Words(1), {<<1, 1>>})

InitCV == InitSelector("CV", MaxComponentsCV, Words(MaxSeq), {<<1, 1>>})

Init == InitBIC \/ InitDIC \/ InitCV

\* --------------------------------------------------------------- actions
\* the locals a select() call starts with
Enter ==
    /\ pc' = "sweep"
    /\ n_components' = min_n_components
    /\ all_n_components' = <<>>
    /\ all_scores' = <<>>
    /\ all_logLs' = <<>>
    /\ sum_logL' = 0
    /\ scores' = <<>>
    /\ fold' = 0
    /\ attempted' = <<>>
    /\ pass' = <<>>
    /\ calls' = calls + 1
    /\ UNCHANGED <<config, X, fitMemo, scoreMemo, best_num_components,
                   result, selected>>

\* the return statement: refit at best on the current (self.X, self.lengths)
Return(best) ==
    /\ best_num_components' = best
    /\ \E fitted \in FitOutcomes(X, best) :
          /\ result' = base_model(best, X, fitted)
          /\ fitMemo' = Remember(fitMemo, <<X, best>>, fitted)
    /\ selected' = Append(selected, best)
    /\ pc' = "done"
    /\ UNCHANGED <<config, X, scoreMemo, n_components, all_n_components,
                   all_logLs, sum_logL, scores, fold, attempted, pass,
                   calls>>

\* SelectorBIC.select is called
BICSelect ==
    /\ selector = "BIC"
    /\ pc = "idle"
    /\ Enter

\* SelectorBIC.select: one pass of the for loop
BICCandidate ==
    /\ selector = "BIC"
    /\ pc = "sweep"
    /\ n_components <= max_n_components
    /\ \E fitted \in FitOutcomes(X, n_components) :
         LET model == base_model(n_components, X, fitted)
         IN \E s \in ScoreOutcomes(model, X) :
              /\ fitMemo' = Remember(fitMemo, <<X, n_components>>, fitted)
              /\ scoreMemo' = RememberScore(model, X, s)
              /\ pass' = Calls(n_components, X, model, X)
              /\ IF s = <<>>
                 THEN UNCHANGED <<all_scores, all_n_components>>
                 ELSE /\ all_scores' = Append(all_scores,
                              bic(s[1], n_components, shape[1], shape[2]))
                      /\ all_n_components' =
                              Append(all_n_components, n_components)
              /\ n_components' = NextCandidate(n_components, s = <<>>)
    /\ attempted' = Append(attempted, n_components)
    /\ UNCHANGED <<config, X, pc, all_logLs, sum_logL, scores, fold,
                   best_num_components, result, calls, selected>>

\* SelectorBIC.select: after the loop
BICFinish ==
    /\ selector = "BIC"
    /\ pc = "sweep"
    /\ n_components > max_n_components
    /\ Return(BICBest(all_n_components, all_scores, n_constant))
    /\ UNCHANGED all_scores

\* SelectorDIC.select is called
DICSelect ==
    /\ selector = "DIC"
    /\ pc = "idle"
    /\ Enter

\* SelectorDIC.select: one pass of the for loop
DICCandidate ==
    /\ selector = "DIC"
    /\ pc = "sweep"
    /\ n_components <= max_n_components
    /\ \E fitted \in FitOutcomes(X, n_components) :
         LET model == base_model(n_components, X, fitted)
         IN \E s \in ScoreOutcomes(model, X) :
              /\ fitMemo' = Remember(fitMemo, <<X, n_components>>, fitted)
              /\ scoreMemo' = RememberScore(model, X, s)
              /\ pass' = Calls(n_components, X, model, X)
              /\ IF s = <<>>
                 THEN UNCHANGED <<sum_logL, all_logLs, all_n_components>>
                 ELSE /\ sum_logL' = sum_logL + s[1]
                      /\ all_logLs' = Append(all_logLs, s[1])
                      /\ all_n_components' =
                              Append(all_n_components, n_components)
              /\ n_components' = NextCandidate(n_components, s = <<>>)
    /\ attempted' = Append(attempted, n_components)
    /\ UNCHANGED <<config, X, pc, all_scores, scores, fold,
                   best_num_components, result, calls, selected>>

\* SelectorDIC.select: after the loop
DICFinish ==
    /\ selector = "DIC"
    /\ pc = "sweep"
    /\ n_components > max_n_components
    /\ all_scores' = IF Len(all_n_components) - 1 > 1
                     THEN DICScores(all_logLs, sum_logL) ELSE all_scores
    /\ Return(DICBest(all_n_components, all_logLs, sum_logL, n_constant))

\* SelectorCV.select is called
CVSelect ==
    /\ selector = "CV"
    /\ pc = "idle"
    /\ Enter

\* SelectorCV.select is called again on the same selector
CVSelectAgain ==
    /\ selector = "CV"
    /\ pc = "done"
    /\ calls < MaxCalls
    /\ Enter

\* SelectorCV.select: a pass of the for loop, up to the loop over the folds
\* when there are enough data, the whole pass when there are not
CVCandidate ==
    /\ selector = "CV"
    /\ pc = "sweep"
    /\ n_components <= max_n_components
    /\ IF enough_data(sequences)
       THEN /\ IF SplitRaises(Len(sequences))
               THEN /\ n_components' = NextCandidate(n_components, TRUE)
                    /\ all_scores' = cv_except(all_scores, <<>>)
                    /\ UNCHANGED <<pc, fold>>
               ELSE /\ pc' = "fold"
                    /\ fold' = 1
                    /\ UNCHANGED <<n_components, all_scores>>
            /\ scores' = <<>>
            /\ pass' = <<>>
            /\ UNCHANGED <<fitMemo, scoreMemo, all_n_components>>
       ELSE /\ \E fitted \in FitOutcomes(X, n_components) :
                 LET model == base_model(n_components, X, fitted)
                 IN \E s \in ScoreOutcomes(model, X) :
                      /\ fitMemo' =
                           Remember(fitMemo, <<X, n_components>>, fitted)
                      /\ scoreMemo' = RememberScore(model, X, s)
                      /\ pass' = Calls(n_components, X, model, X)
                      /\ IF s = <<>>
                         THEN /\ all_scores' = cv_except(all_scores, <<>>)
                              /\ UNCHANGED all_n_components
                         ELSE /\ all_scores' =
                                   Append(all_scores, Rat(s[1], 1))
                              /\ all_n_components' =
                                   Append(all_n_components, n_components)
                      /\ n_components' =
                           NextCandidate(n_components, s = <<>>)
            /\ UNCHANGED <<pc, scores, fold>>
    /\ attempted' = Append(attempted, n_components)
    /\ UNCHANGED <<config, X, all_logLs, sum_logL, best_num_components,
                   result, calls, selected>>

\* SelectorCV.select: one fold of one candidate; after the last fold the mean
\* and the candidate are recorded
CVFold ==
    /\ selector = "CV"
    /\ pc = "fold"
    /\ LET split == Splits[Len(sequences)][fold]
           X_train == combine_sequences(split[1], sequences)
           X_test == combine_sequences(split[2], sequences)
       IN /\ X' = X_train
          /\ \E fitted \in FitOutcomes(X_train, n_components) :
               LET model == base_model(n_components, X_train, fitted)
               IN \E s \in ScoreOutcomes(model, X_test) :
                    /\ fitMemo' =
                         Remember(fitMemo, <<X_train, n_components>>, fitted)
                    /\ scoreMemo' = RememberScore(model, X_test, s)
                    /\ pass' =
                         pass \o Calls(n_components, X_train, model, X_test)
                    /\ IF s = <<>>
                       THEN /\ all_scores' = cv_except(all_scores, scores)
                            /\ n_components' =
                                 NextCandidate(n_components, TRUE)
                            /\ pc' = "sweep"
                            /\ UNCHANGED <<scores, fold, all_n_components>>
                       ELSE IF fold < n_splits
                       THEN /\ scores' = Append(scores, s[1])
                            /\ fold' = fold + 1
                            /\ UNCHANGED <<pc, n_components, all_scores,
                                           all_n_components>>
                       ELSE /\ scores' = Append(scores, s[1])
                            /\ all_scores' =
                                 Append(all_scores, np_mean(scores'))
                            /\ all_n_components' =
                                 Append(all_n_components, n_components)
                            /\ n_components' =
                                 NextCandidate(n_components, FALSE)
                            /\ pc' = "sweep"
                            /\ UNCHANGED fold
    /\ UNCHANGED <<config, all_logLs, sum_logL, best_num_components, result,
                   attempted, calls, selected>>

\* SelectorCV.select: after the loop
CVFinish ==
    /\ selector = "CV"
    /\ pc = "sweep"
    /\ n_components > max_n_components
    /\ Return(CVBest(all_n_components, all_scores, n_constant))
    /\ UNCHANGED all_scores

\* -------------------------------------------------------- specifications
NextBIC == BICSelect \/ BICCandidate \/ BICFinish

NextDIC == DICSelect \/ DICCandidate \/ DICFinish

NextCV == CVSelect \/ CVCandidate \/ CVFold \/ CVFinish

Next == NextBIC \/ NextDIC \/ NextCV

Spec == Init /\ [][Next]_vars

SpecBIC == InitBIC /\ [][NextBIC]_vars

SpecDIC == InitDIC /\ [][NextDIC]_vars

SpecCV == InitCV /\ [][NextCV]_vars

\* a selector over a word with at most 2 sequences, select() called repeatedly
InitFew == InitSelector("CV", MaxComponentsCV, Words(2), {<<1, 1>>})

NextFew == CVSelect \/ CVSelectAgain \/ CVCandidate \/ CVFinish

SpecFew == InitFew /\ [][NextFew]_vars

\* ---------------------------------------------------------------- claims
\* What the claims speak of, read off the library's recorded outcomes rather
\* than off the selector's lists.
Range == min_n_components..max_n_components

Done == pc = "done"

Fitted(data, n) == <<data, n>> \in DOMAIN fitMemo /\ fitMemo[<<data, n>>]

Scored(train, n, test) ==
    /\ Fitted(train, n)
    /\ <<train, n, test>> \in DOMAIN scoreMemo
    /\ scoreMemo[<<train, n, test>>] # <<>>

\* candidate n fit and scored on the full data (SelectorBIC, SelectorDIC, and
\* SelectorCV without a split)
TrainOK(n) == Scored(sequences, n, sequences)

LogLOf(n) == scoreMemo[<<sequences, n, sequences>>][1]

Successes == {n \in Range : TrainOK(n)}

Lowest(S) == CHOOSE n \in S : \A m \in S : n <= m

RECURSIVE SumOver(_, _)
SumOver(f, S) ==
    IF S = {} THEN 0
    ELSE LET x == CHOOSE y \in S : TRUE IN f[x] + SumOver(f, S \ {x})

\* the model select() returns after a fallback or a choice of n, fit on data
Refit(n, data) == IF Fitted(data, n) THEN Model(n, data) ELSE None

\* the training and the held-out observation sets of every fold, for a word
\* of k sequences
FoldData ==
    [k \in 1..MaxSeq |->
        [f \in 1..n_splits |->
            [train |-> combine_sequences(Splits[k][f][1], [i \in 1..k |-> i]),
             test |-> combine_sequences(Splits[k][f][2], [i \in 1..k |-> i])]]]

TrainOf(f) == FoldData[Len(sequences)][f].train

TestOf(f) == FoldData[Len(sequences)][f].test

FoldOK(n, f) == Scored(TrainOf(f), n, TestOf(f))

FoldLogL(n, f) == scoreMemo[<<TrainOf(f), n, TestOf(f)>>][1]

\* the candidates that fit and scored in every fold
CVSuccesses == {n \in Range : \A f \in 1..n_splits : FoldOK(n, f)}

\* the mean held-out log-likelihood of a candidate over all folds
MeanOf(n) == Rat(Sum([f \in 1..n_splits |-> FoldLogL(n, f)]), n_splits)

\* C1: the model SelectorCV.select() returns is fit on the full observation
\* set the selector was constructed with, never on a fold's training part.
C1_RefitOnFullData ==
    (selector = "CV" /\ Done /\ result # None) => result.X = sequences

\* the BIC of a successful candidate
BICOf(n) == bic(LogLOf(n), n, shape[1], shape[2])

StrictlyLowestBIC(n) ==
    /\ n \in Successes
    /\ \A m \in Successes \ {n} : Less(BICOf(n), BICOf(m))

\* C2: SelectorBIC.select() skips the candidates that failed, and returns the
\* model fit at the successful candidate whose BIC is strictly lower than
\* every other successful candidate's, when there is one.
C2_BICSelectsStrictMin ==
    (selector = "BIC" /\ Done) =>
        /\ all_n_components = Ascending(Successes)
        /\ \A n \in Range :
              StrictlyLowestBIC(n) =>
                 /\ best_num_components = n
                 /\ result = Model(n, sequences)

\* a candidate failed and the strictly lowest BIC is not the first success
C2_Witness ==
    /\ selector = "BIC"
    /\ Done
    /\ Successes # Range
    /\ \E n \in Range :
          /\ StrictlyLowestBIC(n)
          /\ n # Lowest(Successes)
          /\ result = Model(n, sequences)

\* DIC(n) = logL(n) - (1/M) * (sum of logL over the other successes)
DICOf(n) ==
    LET others == Successes \ {n}
        M == Cardinality(Successes) - 1
    IN Rat(M * LogLOf(n) - SumOver([m \in others |-> LogLOf(m)], others), M)

\* C3: with at least 2 successful candidates SelectorDIC.select() selects a
\* state count that maximizes DIC.
C3_DICSelectsMaxDIC ==
    (selector = "DIC" /\ Done /\ Cardinality(Successes) >= 2) =>
        /\ best_num_components \in Successes
        /\ \A m \in Successes :
              ~Less(DICOf(best_num_components), DICOf(m))

\* C4: with exactly one successful candidate SelectorDIC.select() selects
\* it; n_constant is selected only when no candidate succeeds.
C4_DICSingleCandidate ==
    (selector = "DIC" /\ Done) =>
        /\ Cardinality(Successes) = 1 => best_num_components \in Successes
        /\ Successes = {} => best_num_components = n_constant

Swept == {n \in Range : n < n_components}

\* C6: in SelectorCV.select() on more than 2 sequences a candidate that
\* failed in any fold is left out entirely: all_scores and all_n_components
\* stay aligned, they hold exactly the candidates that succeeded in every
\* fold with their means over all folds, and the n selected is a successful
\* candidate of maximum mean.
C6_CVWholeCandidates ==
    (selector = "CV" /\ Len(sequences) > 2) =>
        /\ Len(all_scores) = Len(all_n_components)
        /\ pc = "sweep" =>
              /\ all_n_components = Ascending(CVSuccesses \cap Swept)
              /\ \A i \in 1..Len(all_n_components) :
                    /\ ~Less(all_scores[i], MeanOf(all_n_components[i]))
                    /\ ~Less(MeanOf(all_n_components[i]), all_scores[i])
        /\ (Done /\ CVSuccesses # {}) =>
              /\ best_num_components \in CVSuccesses
              /\ \A m \in CVSuccesses :
                    ~Less(MeanOf(best_num_components), MeanOf(m))

\* one candidate failed after a fold of it had scored, another was selected
C6_Witness ==
    /\ selector = "CV"
    /\ Len(sequences) > 2
    /\ Done
    /\ \E n \in Range : FoldOK(n, 1) /\ n \notin CVSuccesses
    /\ best_num_components \in CVSuccesses

\* every candidate of the sweep failed
AllFailed ==
    IF selector = "CV" /\ Len(sequences) > 2
    THEN CVSuccesses = {}
    ELSE Successes = {}

\* C7: when every candidate fails, or the range is empty, select() returns
\* the model fit at n_constant, and None when that fit fails too.
C7_TotalExhaustion ==
    (Done /\ AllFailed) =>
        /\ best_num_components = n_constant
        /\ result = Refit(n_constant, X)

\* every candidate of a non-empty range failed and so did the fallback
C7_Witness ==
    /\ Done
    /\ AllFailed
    /\ Range # {}
    /\ best_num_components = n_constant
    /\ result = None

IsPrefix(s, t) == Len(s) <= Len(t) /\ \A i \in 1..Len(s) : s[i] = t[i]

\* a select() that was called and has not returned
Running == pc \in {"sweep", "fold"}

\* the steps select() has left at most: the passes and folds to come
Remaining ==
    IF ~Running THEN 0
    ELSE IF n_components > max_n_components THEN 1
    ELSE (max_n_components + 1 - n_components) * (n_splits + 1) + 1
         - (IF pc = "fold" THEN fold ELSE 0)

\* C8: every n of the range is attempted once, in ascending order, whatever
\* the outcome of the earlier candidates, and select() then returns one
\* result: a running select() always has a step to take, every step brings
\* its return nearer, and it returns only after the whole range.
C8_FullSweep ==
    /\ [](calls > 0 => IsPrefix(attempted, Ascending(Range)))
    /\ [](Done => attempted = Ascending(Range))
    /\ [](Done => result.n_components \in {0, best_num_components})
    /\ [](Running => ENABLED Next)
    /\ [][Running => Remaining' < Remaining]_vars

\* a candidate failed and a later one was attempted and did not fail
C8_Witness ==
    /\ Done
    /\ \E i \in 1..Len(attempted) :
          /\ attempted[i] \notin {all_n_components[k] :
                                     k \in 1..Len(all_n_components)}
          /\ \E k \in 1..Len(all_n_components) :
                all_n_components[k] > attempted[i]

\* C9: SelectorCV.select() on at most 2 sequences never splits and leaves
\* the observation set alone; the pass of each candidate, and no candidate has
\* two, fits once, on that set, and scores the model once, on that set; and
\* calling select() again selects the same n.
C9_NoSplitFewSequences ==
    (selector = "CV" /\ Len(sequences) <= 2) =>
        /\ pc # "fold"
        /\ X = sequences
        /\ attempted # <<>> =>
              LET n == attempted[Len(attempted)]
              IN pass = Calls(n, sequences, Refit(n, sequences), sequences)
        /\ \A i, j \in 1..Len(attempted) :
              attempted[i] = attempted[j] => i = j
        /\ \A i, j \in 1..Len(selected) : selected[i] = selected[j]

\* select() has returned twice on a word of 2 sequences, having chosen among
\* successful candidates
C9_Witness ==
    /\ Len(sequences) = 2
    /\ Len(selected) = 2
    /\ Done
    /\ Cardinality(Successes) >= 2
    /\ best_num_components \in Successes

\* the lowest n among the successes of highest training log-likelihood
MaxLikelihood ==
    Lowest({n \in Successes : \A m \in Successes : LogLOf(m) <= LogLOf(n)})

=============================================================================
